---- MODULE Spec2Model ----
(***************************************************************************)
(* Model of src/app.py: the hierarchy builder (build_task_hierarchy), the  *)
(* progress aggregator (recalculate_progress_recursively), the S-curve     *)
(* analyser (get_s_curve_data) and the request handlers that persist one   *)
(* forest per project file.                                                *)
(*                                                                         *)
(* A task is a record; its 'subtasks' field is the sequence of its child   *)
(* tasks.  A string the code splits, sorts or filters (a WBS code, a       *)
(* project name) is a sequence of one-character strings.  A datetime is a  *)
(* count of half days: 2 * day + h, h = 0 for midnight and 1 for noon, so  *)
(* that .date() is dt \div 2 and timedelta(days=1) is + 2.                 *)
(***************************************************************************)
EXTENDS Integers, Sequences, FiniteSets, TLC

VARIABLES
    pc,            \* position of the call or request being modelled
    df,            \* rows handed to build_task_hierarchy
    given,         \* the forest as handed to the function under study
    tasks,         \* the forest in memory (the function's return value)
    first,         \* the forest returned by the first aggregator call
    now,           \* datetime.now() of the analyser call
    s_curve_data,  \* return value of get_s_curve_data
    profiles,      \* profiles['projects']: registered project names, in order
    files          \* the project data files: file name -> stored forest

vars == <<pc, df, given, tasks, first, now, s_curve_data, profiles, files>>

(***************************************************************************)
(* Values                                                                  *)
(***************************************************************************)

\* a date field: None, an ISO string (parsed value dt), or a string
\* datetime.fromisoformat rejects with ValueError
NoDate == [kind |-> "none", dt |-> 0]
Iso(dt) == [kind |-> "iso", dt |-> dt]
BadDate == [kind |-> "bad", dt |-> 0]

\* a date field holding a float NaN
NaNDate == [kind |-> "nan", dt |-> 0]

\* the dict build_task_hierarchy creates for a row, with the fields the
\* aggregator and the analyser read
Task(wbs, weightage, progress, ps, pe, ae, subtasks) ==
    [id |-> wbs, wbs |-> wbs, weightage |-> weightage, progress |-> progress,
     plannedStartDate |-> ps, plannedEndDate |-> pe, actualEndDate |-> ae,
     status |-> "Not Started", subtasks |-> subtasks]

\* the empty S-curve result {} and a computed one
EmptyCurve ==
    [empty |-> TRUE, dates |-> <<>>, planned_progress |-> <<>>,
     actual_progress |-> <<>>]

Abs(x) == IF x < 0 THEN -x ELSE x

\* Python's round(n / d) for d > 0: nearest integer, ties to the even one
round(n, d) ==
    LET q == n \div d
        r == n % d
    IN  IF 2 * r < d THEN q
        ELSE IF 2 * r > d THEN q + 1
        ELSE IF q % 2 = 0 THEN q ELSE q + 1

(***************************************************************************)
(* Progress aggregator                                                     *)
(***************************************************************************)

RECURSIVE total_weight(_)
total_weight(subtasks) ==
    IF subtasks = <<>> THEN 0
    ELSE total_weight(SubSeq(subtasks, 1, Len(subtasks) - 1))
         + subtasks[Len(subtasks)].weightage

RECURSIVE weighted_progress_sum(_)
weighted_progress_sum(subtasks) ==
    IF subtasks = <<>> THEN 0
    ELSE weighted_progress_sum(SubSeq(subtasks, 1, Len(subtasks) - 1))
         + subtasks[Len(subtasks)].progress * subtasks[Len(subtasks)].weightage

\* a plausible slip: ties rounded up instead of to even
ParentProgressHalfUp(subtasks) ==
    IF total_weight(subtasks) > 0
    THEN (2 * weighted_progress_sum(subtasks) + total_weight(subtasks))
         \div (2 * total_weight(subtasks))
    ELSE 0

\* lines 117-129: the progress of a task from its refreshed subtasks
ParentProgress(subtasks) ==
    IF total_weight(subtasks) > 0
    THEN round(weighted_progress_sum(subtasks), total_weight(subtasks))
    ELSE 0

RECURSIVE recalculate_progress_recursively(_)

\* a plausible slip: the task's progress computed before its subtasks
\* are refreshed
RecalculateTaskStale(task) ==
    IF Len(task.subtasks) > 0
    THEN [task EXCEPT !.subtasks = recalculate_progress_recursively(task.subtasks),
                      !.progress = ParentProgress(task.subtasks)]
    ELSE task

\* a plausible slip: the subtasks are not recursed into
RecalculateTaskShallow(task) ==
    IF Len(task.subtasks) > 0
    THEN [task EXCEPT !.progress = ParentProgress(task.subtasks)]
    ELSE task

\* a plausible slip: the test for subtasks left out, so that a leaf is given
\* the progress of a task without weighted subtasks
RecalculateTaskAll(task) ==
    [task EXCEPT !.subtasks = recalculate_progress_recursively(task.subtasks),
                 !.progress = ParentProgress(recalculate_progress_recursively(
                                                 task.subtasks))]

\* the body of the loop over tasks, lines 112-129
RecalculateTask(task) ==
    IF Len(task.subtasks) > 0
    THEN LET subtasks == recalculate_progress_recursively(task.subtasks)
         IN  [task EXCEPT !.subtasks = subtasks,
                          !.progress = ParentProgress(subtasks)]
    ELSE task

recalculate_progress_recursively(ts) ==
    [i \in 1..Len(ts) |-> RecalculateTask(ts[i])]

(***************************************************************************)
(* Reading a forest                                                        *)
(***************************************************************************)

\* every task of a forest, at every depth
RECURSIVE AllTasks(_)
AllTasks(ts) ==
    UNION {{ts[i]} \cup AllTasks(ts[i].subtasks) : i \in 1..Len(ts)}

SumOver(S, f(_)) ==
    LET RECURSIVE Go(_)
        Go(T) == IF T = {} THEN 0
                 ELSE LET x == CHOOSE y \in T : TRUE IN f(x) + Go(T \ {x})
    IN  Go(S)

ChildWeight(p) ==
    LET W(i) == p.subtasks[i].weightage IN SumOver(DOMAIN p.subtasks, W)

ChildWeightedProgress(p) ==
    LET WP(i) == p.subtasks[i].progress * p.subtasks[i].weightage
    IN  SumOver(DOMAIN p.subtasks, WP)

\* p.progress is the integer nearest to s / w, the even one on a tie
IsNearestEven(p, s, w) ==
    /\ 2 * Abs(s - p * w) <= w
    /\ 2 * Abs(s - p * w) = w => p % 2 = 0

\* the progress-consistency condition on one task
ConsistentTask(p) ==
    Len(p.subtasks) > 0 =>
        /\ ChildWeight(p) > 0 =>
               IsNearestEven(p.progress, ChildWeightedProgress(p), ChildWeight(p))
        /\ ChildWeight(p) = 0 => p.progress = 0

Consistent(ts) == \A p \in AllTasks(ts) : ConsistentTask(p)

(***************************************************************************)
(* The aggregator applied to a forest                                      *)
(***************************************************************************)

MaxWeightage == 3

\* weightages a stored or posted task can carry (float(raw_val) keeps a
\* negative number negative)
Weightages == -1..MaxWeightage

\* progress values a leaf can carry
LeafProgress == {0, 1, 2, 100}

\* progress values an internal task can carry before the call
StaleProgress == {0, 7}

W1 == <<"1">>
W2 == <<"2">>
W11 == <<"1", ".", "1">>
W12 == <<"1", ".", "2">>
W121 == <<"1", ".", "2", ".", "1">>
W122 == <<"1", ".", "2", ".", "2">>

Leaves(wbs, ws) ==
    {Task(wbs, w, p, NoDate, NoDate, NoDate, <<>>) : w \in ws, p \in LeafProgress}

\* forests of depth three: 1 -> (1.1, 1.2 -> (1.2.1, 1.2.2)), and the leaf 2;
\* 1.2 has two, one or no subtasks
AggForests ==
    {<<Task(W1, 1, p1, NoDate, NoDate, NoDate,
            <<l11, Task(W12, w12, p12, NoDate, NoDate, NoDate, sub)>>),
       Task(W2, 1, 0, NoDate, NoDate, NoDate, <<>>)>> :
        p1 \in StaleProgress, l11 \in Leaves(W11, Weightages),
        w12 \in Weightages, p12 \in StaleProgress,
        sub \in {<<>>}
                \cup {<<a>> : a \in Leaves(W121, Weightages)}
                \cup {<<a, b>> : a \in Leaves(W121, Weightages),
                                 b \in Leaves(W122, {1})}}

NoFiles == [f \in {} |-> <<>>]

InitAgg ==
    /\ pc = "given"
    /\ given \in AggForests
    /\ tasks = given
    /\ first = <<>>
    /\ df = <<>>
    /\ now = 0
    /\ s_curve_data = EmptyCurve
    /\ profiles = <<>>
    /\ files = NoFiles

\* recalculate_progress_recursively(tasks)
Recalculate ==
    /\ pc = "given"
    /\ tasks' = recalculate_progress_recursively(tasks)
    /\ first' = tasks'
    /\ pc' = "once"
    /\ UNCHANGED <<df, given, now, s_curve_data, profiles, files>>

\* recalculate_progress_recursively applied to its own result
RecalculateAgain ==
    /\ pc = "once"
    /\ tasks' = recalculate_progress_recursively(tasks)
    /\ pc' = "twice"
    /\ UNCHANGED <<df, given, first, now, s_curve_data, profiles, files>>

NextAgg == Recalculate \/ RecalculateAgain

SpecAgg == InitAgg /\ [][NextAgg]_vars

\* C1: after recalculate_progress_recursively returns, every task with at
\* least one subtask, at every depth, has progress equal to the weighted
\* average of its subtasks' progress rounded to the nearest integer (ties to
\* even) when the subtasks' total weightage is > 0, and 0 when it is 0.
AggregatorCorrect == pc \in {"once", "twice"} => Consistent(tasks)

\* a returned forest with a tie rounded to even under a positive total
\* weightage, a parent whose subtasks weigh 0 in total, and a changed value
AggregatorCorrectWitness ==
    /\ pc = "once"
    /\ tasks # given
    /\ \E p \in AllTasks(tasks) :
           /\ Len(p.subtasks) > 0
           /\ ChildWeight(p) > 0
           /\ 2 * Abs(ChildWeightedProgress(p) - p.progress * ChildWeight(p))
              = ChildWeight(p)
    /\ \E p \in AllTasks(tasks) :
           Len(p.subtasks) > 0 /\ ChildWeight(p) = 0 /\ p.progress = 0

\* C3: applying recalculate_progress_recursively to its own result, with no
\* leaf edited in between, returns the forest the first application returned.
AggregatorIdempotent == pc = "twice" => tasks = first

\* the second application has run on a forest of depth three whose internal
\* progress values the first application had to change
AggregatorIdempotentWitness ==
    /\ pc = "twice"
    /\ first # given
    /\ \E p \in AllTasks(given) :
           /\ Len(p.subtasks) > 0
           /\ \E i \in DOMAIN p.subtasks :
                  /\ Len(p.subtasks[i].subtasks) > 0
                  /\ p.subtasks[i].progress # first[1].subtasks[2].progress

\* the task b is the task a but for the progress of tasks with subtasks:
\* every other field, the progress of a task without subtasks, and the
\* number and order of the subtasks are the same, at every depth
RECURSIVE SameButParentProgress(_, _)
SameButParentProgress(a, b) ==
    /\ Len(a) = Len(b)
    /\ \A i \in DOMAIN a :
           /\ [a[i] EXCEPT !.progress = 0, !.subtasks = <<>>]
              = [b[i] EXCEPT !.progress = 0, !.subtasks = <<>>]
           /\ a[i].subtasks = <<>> => b[i].progress = a[i].progress
           /\ SameButParentProgress(a[i].subtasks, b[i].subtasks)

\* C13: recalculate_progress_recursively changes nothing but the progress of
\* tasks with at least one subtask: the progress of every task without
\* subtasks, every other field of every task, and the shape and order of the
\* forest are as before the call.
AggregatorFrame ==
    pc \in {"once", "twice"} => SameButParentProgress(given, tasks)

\* a call that changed a parent's progress on a forest holding a leaf with
\* a progress other than 0 and a task with an empty subtask list that
\* carries a progress other than 0
AggregatorFrameWitness ==
    /\ pc = "once"
    /\ tasks # given
    /\ \E t \in AllTasks(tasks) :
           t.subtasks = <<>> /\ t.progress = 100 /\ t.weightage > 0
    /\ \E t \in AllTasks(tasks) :
           t.subtasks = <<>> /\ t.wbs = W12 /\ t.progress # 0

(***************************************************************************)
(* Hierarchy builder                                                       *)
(***************************************************************************)

\* a cell of the WBS column: missing (None / NaN), or a string
NaCell == [kind |-> "na", str |-> <<>>]
StrCell(str) == [kind |-> "str", str |-> str]

\* a cell of the Weightage column: missing, a number, or a text that
\* float() rejects
NaWeight == [kind |-> "na", val |-> 0]
NumWeight(v) == [kind |-> "num", val |-> v]
TextWeight == [kind |-> "text", val |-> 0]

Row(wbs, weightage) == [WBS |-> wbs, Weightage |-> weightage]

\* a plausible slip: the missing-value test left out
IsNaNever(cell) == FALSE

\* pd.isna(row.get('WBS')), line 161
IsNa(cell) == cell.kind = "na"

\* str(row.get('WBS')), line 164
str(cell) == IF cell.kind = "na" THEN <<"N", "o", "n", "e">> ELSE cell.str

\* lines 167-178: the weightage of a row
WeightageVal(raw_val) ==
    IF raw_val.kind = "na" THEN 0
    ELSE IF raw_val.kind = "text" THEN 0
    ELSE raw_val.val

\* lines 180-203: the task of a row
RowTask(row) ==
    Task(str(row.WBS), WeightageVal(row.Weightage), 0, NoDate, NoDate, NoDate, <<>>)

\* a plausible slip: the first row of a WBS code kept, later ones ignored
PutFirst(d, task) ==
    [w \in DOMAIN d \cup {task.wbs} |-> IF w \in DOMAIN d THEN d[w] ELSE task]

\* tasks_by_wbs[task['wbs']] = task, line 204
Put(d, task) ==
    [w \in DOMAIN d \cup {task.wbs} |-> IF w = task.wbs THEN task ELSE d[w]]

\* first pass, lines 160-204: the dict tasks_by_wbs after the rows of df
RECURSIVE tasks_by_wbs(_)
tasks_by_wbs(rows) ==
    IF rows = <<>> THEN [w \in {} |-> <<>>]
    ELSE LET d == tasks_by_wbs(SubSeq(rows, 1, Len(rows) - 1))
             row == rows[Len(rows)]
         IN  IF IsNa(row.WBS) THEN d ELSE Put(d, RowTask(row))

\* ord(c) of the characters that occur
ord(c) ==
    CASE c = "." -> 46
      [] c = "0" -> 48
      [] c = "1" -> 49
      [] c = "2" -> 50
      [] c = "3" -> 51
      [] c = "N" -> 78
      [] c = "e" -> 101
      [] c = "n" -> 110
      [] c = "o" -> 111

\* a < b for Python strings: by code point at the first difference, a proper
\* prefix first
RECURSIVE StrLess(_, _)
StrLess(a, b) ==
    IF b = <<>> THEN FALSE
    ELSE IF a = <<>> THEN TRUE
    ELSE IF a[1] # b[1] THEN ord(a[1]) < ord(b[1])
    ELSE StrLess(Tail(a), Tail(b))

\* sorted(tasks_by_wbs.keys()), line 207
RECURSIVE sorted(_)
sorted(S) ==
    IF S = {} THEN <<>>
    ELSE LET m == CHOOSE x \in S : \A y \in S : x = y \/ StrLess(x, y)
         IN  <<m>> \o sorted(S \ {m})

\* index of the last "." of a string, 0 when there is none
LastDot(wbs) ==
    LET D == {i \in DOMAIN wbs : wbs[i] = "."}
    IN  IF D = {} THEN 0 ELSE CHOOSE i \in D : \A j \in D : j <= i

FirstDot(wbs) ==
    LET D == {i \in DOMAIN wbs : wbs[i] = "."}
    IN  IF D = {} THEN 0 ELSE CHOOSE i \in D : \A j \in D : i <= j

\* a plausible slip: split('.')[0], the first segment, taken as the parent
ParentWbsFirstSegment(wbs) ==
    IF FirstDot(wbs) = 0 THEN <<>> ELSE SubSeq(wbs, 1, FirstDot(wbs) - 1)

\* '.'.join(wbs.split('.')[:-1]), line 210
parent_wbs(wbs) ==
    IF LastDot(wbs) = 0 THEN <<>> ELSE SubSeq(wbs, 1, LastDot(wbs) - 1)

\* lines 211-214 for one key: the key is appended to its parent's subtasks
\* or to the top-level list.  ln.sub maps a WBS code to the WBS codes of its
\* subtasks, in the order of the appends; ln.top is top_level_tasks
LinkOne(ln, wbs, keys) ==
    IF parent_wbs(wbs) # <<>> /\ parent_wbs(wbs) \in keys
    THEN [ln EXCEPT !.sub[parent_wbs(wbs)] = Append(@, wbs)]
    ELSE [ln EXCEPT !.top = Append(@, wbs)]

\* second pass, lines 208-214, over the sorted keys
RECURSIVE Link(_, _)
Link(sorted_wbs_keys, keys) ==
    IF sorted_wbs_keys = <<>>
    THEN [sub |-> [w \in keys |-> <<>>], top |-> <<>>]
    ELSE LinkOne(Link(SubSeq(sorted_wbs_keys, 1, Len(sorted_wbs_keys) - 1), keys),
                 sorted_wbs_keys[Len(sorted_wbs_keys)], keys)

\* the nested value of a list of task objects: each task with the subtasks
\* appended to it
RECURSIVE Nest(_, _, _)
Nest(ids, d, sub) ==
    [i \in 1..Len(ids) |->
        [d[ids[i]] EXCEPT !.subtasks = Nest(sub[ids[i]], d, sub)]]

\* build_task_hierarchy(df), lines 133-217
build_task_hierarchy(rows) ==
    LET d == tasks_by_wbs(rows)
        ln == Link(sorted(DOMAIN d), DOMAIN d)
    IN  recalculate_progress_recursively(Nest(ln.top, d, ln.sub))

(***************************************************************************)
(* The builder applied to a DataFrame                                      *)
(***************************************************************************)

MaxRows == 4

W10 == <<"1", "0">>
W110 == <<"1", ".", "1", "0">>
W111 == <<"1", ".", "1", ".", "1">>

\* the rows a DataFrame is made of: a blank row, two rows of WBS 1 that
\* differ in weightage, and rows with every kind of weightage cell
RowPool ==
    {Row(NaCell, NumWeight(1)),
     Row(StrCell(W1), NumWeight(MaxWeightage)),
     Row(StrCell(W1), NaWeight),
     Row(StrCell(W2), TextWeight),
     Row(StrCell(W10), NumWeight(-1)),
     Row(StrCell(W11), NumWeight(1)),
     Row(StrCell(W12), NumWeight(0)),
     Row(StrCell(W110), NumWeight(1)),
     Row(StrCell(W111), NumWeight(2))}

DataFrames == UNION {[1..n -> RowPool] : n \in 0..MaxRows}

InitBuild ==
    /\ pc = "rows"
    /\ df \in DataFrames
    /\ given = <<>>
    /\ tasks = <<>>
    /\ first = <<>>
    /\ now = 0
    /\ s_curve_data = EmptyCurve
    /\ profiles = <<>>
    /\ files = NoFiles

\* hierarchical_data = build_task_hierarchy(df)
BuildHierarchy ==
    /\ pc = "rows"
    /\ tasks' = build_task_hierarchy(df)
    /\ pc' = "built"
    /\ UNCHANGED <<df, given, first, now, s_curve_data, profiles, files>>

NextBuild == BuildHierarchy

SpecBuild == InitBuild /\ [][NextBuild]_vars

\* the rows of a DataFrame that carry a WBS code, and their codes
Surviving(rows) == {i \in DOMAIN rows : rows[i].WBS.kind # "na"}
Codes(rows) == {rows[i].WBS.str : i \in Surviving(rows)}

\* the last row that carries the code w
LastRow(rows, w) ==
    rows[CHOOSE i \in Surviving(rows) :
            /\ rows[i].WBS.str = w
            /\ \A j \in Surviving(rows) : rows[j].WBS.str = w => j <= i]

\* the tasks of a forest in pre-order, each as often as it occurs
RECURSIVE Flatten(_)
Flatten(ts) ==
    IF ts = <<>> THEN <<>>
    ELSE <<ts[1]>> \o Flatten(ts[1].subtasks) \o Flatten(Tail(ts))

Range(seq) == {seq[i] : i \in DOMAIN seq}

\* pw is w with its last dot-separated segment dropped
IsParentCode(pw, w) ==
    \E k \in DOMAIN w :
        /\ w[k] = "."
        /\ pw = SubSeq(w, 1, k - 1)
        /\ \A j \in (k + 1)..Len(w) : w[j] # "."

\* every task is a subtask of the task carrying its parent code when a row
\* carries that code, and is top-level otherwise
PlacedByRule(ts, rows) ==
    \A t \in AllTasks(ts) :
        IF \E pw \in Codes(rows) : pw # <<>> /\ IsParentCode(pw, t.wbs)
        THEN /\ \E p \in AllTasks(ts) :
                    IsParentCode(p.wbs, t.wbs) /\ t \in Range(p.subtasks)
             /\ t \notin Range(ts)
        ELSE /\ t \in Range(ts)
             /\ \A p \in AllTasks(ts) : t \notin Range(p.subtasks)

\* C4 as stated: every surviving row is placed exactly once in the forest
\* (one task per row, with that row's code and weightage), as a subtask of
\* the task with its parent code when a row carries that code, wherever that
\* row stands, and top-level otherwise.
BuildPlacesEveryRow ==
    pc = "built" =>
        /\ Len(Flatten(tasks)) = Cardinality(Surviving(df))
        /\ \A i \in Surviving(df) :
               \E k \in DOMAIN Flatten(tasks) :
                   /\ Flatten(tasks)[k].wbs = df[i].WBS.str
                   /\ Flatten(tasks)[k].weightage = WeightageVal(df[i].Weightage)
        /\ PlacedByRule(tasks, df)

\* C4 as amended: every WBS code carried by a surviving row is placed exactly
\* once in the forest, as the task of the last row that carries it (earlier
\* rows with the same code leave no task), as a subtask of the task with its
\* parent code when a row carries that code, wherever that row stands, and
\* top-level otherwise.
BuildPlacesEveryCode ==
    pc = "built" =>
        /\ \A k \in DOMAIN Flatten(tasks) : Flatten(tasks)[k].wbs \in Codes(df)
        /\ \A w \in Codes(df) :
               /\ Cardinality({k \in DOMAIN Flatten(tasks) :
                                   Flatten(tasks)[k].wbs = w}) = 1
               /\ \E k \in DOMAIN Flatten(tasks) :
                      /\ Flatten(tasks)[k].wbs = w
                      /\ Flatten(tasks)[k].weightage
                         = WeightageVal(LastRow(df, w).Weightage)
        /\ PlacedByRule(tasks, df)

\* a forest built from rows where a parent's row follows its child's row,
\* a task is top-level although a more distant ancestor has a row, and a
\* WBS code is carried by two rows
BuildPlacesEveryCodeWitness ==
    /\ pc = "built"
    /\ \E i, j \in Surviving(df) :
           i < j /\ IsParentCode(df[j].WBS.str, df[i].WBS.str)
                 /\ \E p \in AllTasks(tasks) : Len(p.subtasks) > 0
    /\ \E t \in Range(tasks) :
           /\ LastDot(t.wbs) > 0
           /\ SubSeq(t.wbs, 1, FirstDot(t.wbs) - 1) \in Codes(df)
    /\ \E i, j \in Surviving(df) : i < j /\ df[i].WBS = df[j].WBS

\* the integer a string of digits denotes
RECURSIVE int(_)
int(digits) ==
    IF digits = <<>> THEN 0
    ELSE 10 * int(SubSeq(digits, 1, Len(digits) - 1))
         + (ord(digits[Len(digits)]) - ord("0"))

\* the segments of a WBS code, as integers
RECURSIVE Segments(_)
Segments(w) ==
    IF FirstDot(w) = 0 THEN <<int(w)>>
    ELSE <<int(SubSeq(w, 1, FirstDot(w) - 1))>>
         \o Segments(SubSeq(w, FirstDot(w) + 1, Len(w)))

\* a before b, segment by segment as integers
RECURSIVE SegLess(_, _)
SegLess(a, b) ==
    IF b = <<>> THEN FALSE
    ELSE IF a = <<>> THEN TRUE
    ELSE IF a[1] # b[1] THEN a[1] < b[1]
    ELSE SegLess(Tail(a), Tail(b))

AscendingWbs(ts) ==
    \A i, j \in DOMAIN ts :
        i < j => SegLess(Segments(ts[i].wbs), Segments(ts[j].wbs))

\* C5: in the forest build_task_hierarchy returns, the top-level tasks and
\* the subtasks of every task are in ascending WBS order, the codes compared
\* segment by segment as integers (2 before 10, 1.2 before 1.10).
BuildOrdersNumerically ==
    pc = "built" =>
        /\ AscendingWbs(tasks)
        /\ \A p \in AllTasks(tasks) : AscendingWbs(p.subtasks)

\* C6: every task build_task_hierarchy creates has a weightage >= 0: the
\* number of a numeric cell, and 0 for a missing or non-numeric cell.
BuildWeightageNonNegative ==
    pc = "built" =>
        \A t \in AllTasks(tasks) :
            /\ t.weightage >= 0
            /\ LET raw_val == LastRow(df, t.wbs).Weightage
               IN  t.weightage = IF raw_val.kind = "num" THEN raw_val.val ELSE 0

RemoveAt(seq, i) == SubSeq(seq, 1, i - 1) \o SubSeq(seq, i + 1, Len(seq))

\* C7: a row whose WBS is missing is dropped silently: the forest is the one
\* built from the same rows without that row.
BuildSkipsMissingWbs ==
    pc = "built" =>
        \A i \in DOMAIN df :
            df[i].WBS.kind = "na" => tasks = build_task_hierarchy(RemoveAt(df, i))

\* a forest built from rows where a row without WBS stands between the rows
\* of two siblings
BuildSkipsMissingWbsWitness ==
    /\ pc = "built"
    /\ \E i, j, k \in DOMAIN df :
           /\ i < j /\ j < k
           /\ df[j].WBS.kind = "na"
           /\ \E p \in AllTasks(tasks) :
                  /\ Len(p.subtasks) = 2
                  /\ p.subtasks[1].wbs = df[i].WBS.str
                  /\ p.subtasks[2].wbs = df[k].WBS.str

(***************************************************************************)
(* S-curve analyser                                                        *)
(***************************************************************************)

\* datetime.date() and strftime('%d-%b-%y'): the day of a datetime
date(dt) == dt \div 2

\* a plausible slip: every task with weightage appended, parents too
RECURSIVE FlattenTasksAll(_)
FlattenTasksAll(task_list) ==
    IF task_list = <<>> THEN <<>>
    ELSE (IF task_list[1].weightage > 0 THEN <<task_list[1]>> ELSE <<>>)
         \o FlattenTasksAll(task_list[1].subtasks)
         \o FlattenTasksAll(Tail(task_list))

\* flatten_tasks, lines 506-512: all_leaf_tasks, in the order of the appends
RECURSIVE flatten_tasks(_)
flatten_tasks(task_list) ==
    IF task_list = <<>> THEN <<>>
    ELSE (IF task_list[1].subtasks = <<>> /\ task_list[1].weightage > 0
          THEN <<task_list[1]>>
          ELSE IF task_list[1].subtasks # <<>>
          THEN flatten_tasks(task_list[1].subtasks)
          ELSE <<>>)
         \o flatten_tasks(Tail(task_list))

\* the date fields lines 522-524 read from a leaf
DateFields(t) == {t.plannedStartDate, t.plannedEndDate, t.actualEndDate}

\* lines 519-530: datetime.fromisoformat raises ValueError or TypeError on
\* one of the fields
RaisesOnDates(all_leaf_tasks) ==
    \E i \in DOMAIN all_leaf_tasks :
        \E f \in DateFields(all_leaf_tasks[i]) : f.kind \in {"bad", "nan"}

\* lines 520-524: all_dates, as a set
all_dates(all_leaf_tasks) ==
    {f.dt : f \in {g \in UNION {DateFields(all_leaf_tasks[i]) :
                                   i \in DOMAIN all_leaf_tasks} : g.kind = "iso"}}

Min(S) == CHOOSE x \in S : \A y \in S : x <= y
Max(S) == CHOOSE x \in S : \A y \in S : y <= x

\* line 533
RECURSIVE total_weightage(_)
total_weightage(all_leaf_tasks) ==
    IF all_leaf_tasks = <<>> THEN 0
    ELSE all_leaf_tasks[1].weightage + total_weightage(Tail(all_leaf_tasks))

\* a plausible slip: only the tasks ending on the day itself are summed
RECURSIVE WeightDoneOnDay(_, _, _)
WeightDoneOnDay(all_leaf_tasks, field, current_date) ==
    IF all_leaf_tasks = <<>> THEN 0
    ELSE (IF /\ all_leaf_tasks[1][field].kind # "none"
             /\ date(all_leaf_tasks[1][field].dt) = date(current_date)
          THEN all_leaf_tasks[1].weightage ELSE 0)
         + WeightDoneOnDay(Tail(all_leaf_tasks), field, current_date)

\* lines 548-557: the weightage of the leaves whose end date t[field],
\* planned or actual, is on or before the day of current_date
RECURSIVE weight_done(_, _, _)
weight_done(all_leaf_tasks, field, current_date) ==
    IF all_leaf_tasks = <<>> THEN 0
    ELSE (IF /\ all_leaf_tasks[1][field].kind # "none"
             /\ date(all_leaf_tasks[1][field].dt) <= date(current_date)
          THEN all_leaf_tasks[1].weightage ELSE 0)
         + weight_done(Tail(all_leaf_tasks), field, current_date)

\* round(x / total * 100, 2), in hundredths of a percent
round2(x, total) == round(10000 * x, total)

\* lines 544-563: the points from current_date on
RECURSIVE CurvePoints(_, _, _)
CurvePoints(current_date, loop_end_date, all_leaf_tasks) ==
    IF current_date <= loop_end_date
    THEN <<[date |-> date(current_date),
            planned |-> round2(weight_done(all_leaf_tasks, "plannedEndDate", current_date),
                               total_weightage(all_leaf_tasks)),
            actual |-> round2(weight_done(all_leaf_tasks, "actualEndDate", current_date),
                              total_weightage(all_leaf_tasks))]>>
         \o CurvePoints(current_date + 2, loop_end_date, all_leaf_tasks)
    ELSE <<>>

\* get_s_curve_data(tasks), lines 503-565, called at datetime.now() = today
get_s_curve_data(ts, today) ==
    LET all_leaf_tasks == flatten_tasks(ts)
    IN  IF all_leaf_tasks = <<>> THEN EmptyCurve
        ELSE IF RaisesOnDates(all_leaf_tasks) THEN EmptyCurve
        ELSE IF all_dates(all_leaf_tasks) = {} THEN EmptyCurve
        ELSE IF total_weightage(all_leaf_tasks) = 0 THEN EmptyCurve
        ELSE LET project_start_date == Min(all_dates(all_leaf_tasks))
                 project_end_date == Max(all_dates(all_leaf_tasks))
                 loop_end_date == Min({project_end_date, today})
                 points == CurvePoints(project_start_date, loop_end_date,
                                       all_leaf_tasks)
             IN  [empty |-> FALSE,
                  dates |-> [i \in DOMAIN points |-> points[i].date],
                  planned_progress |-> [i \in DOMAIN points |-> points[i].planned],
                  actual_progress |-> [i \in DOMAIN points |-> points[i].actual]]

(***************************************************************************)
(* The analyser applied to a forest                                        *)
(***************************************************************************)

MaxDay == 3

\* the datetimes a date field can hold: days 1..MaxDay, midnight and noon
DateTimes == 2..(2 * MaxDay + 1)

\* the values of datetime.now(): from day 0 to the day after MaxDay
Nows == 0..(2 * MaxDay + 3)

AnyDate == {NoDate} \cup {Iso(dt) : dt \in DateTimes}

\* forests 1 -> (1.1, 1.2 -> (1.2.1), 1.3), 2: the leaves 1.1 and 1.2.1
\* carry a positive weightage and dates; the internal tasks 1 and 1.2 carry a
\* weightage and dates of day 0 and of the day after MaxDay; the leaf 1.3
\* has weightage 0 and the same dates; the leaf 2 has no date or an
\* unparsable one
CurveForests ==
    {<<Task(W1, 5, 0, Iso(0), Iso(0), Iso(0),
            <<Task(W11, wa, 0, psa, pea, aea, <<>>),
              Task(W12, 5, 0, Iso(1), Iso(2 * MaxDay + 2), Iso(1),
                   <<Task(W121, wb, 0, NoDate, peb, aeb, <<>>)>>),
              Task(<<"1", ".", "3">>, 0, 0, Iso(0), Iso(2 * MaxDay + 3), Iso(0),
                   <<>>)>>),
       Task(W2, c[1], 0, NoDate, NoDate, c[2], <<>>)>> :
        wa \in {1, 2}, psa \in {NoDate, Iso(2), Iso(3)}, pea \in AnyDate,
        aea \in AnyDate,
        wb \in {1}, peb \in AnyDate, aeb \in {NoDate, Iso(4)},
        c \in {<<0, NoDate>>, <<1, NoDate>>, <<1, BadDate>>}}

InitCurve ==
    /\ pc = "stored"
    /\ given \in CurveForests
    /\ tasks = given
    /\ now \in Nows
    /\ s_curve_data = EmptyCurve
    /\ df = <<>>
    /\ first = <<>>
    /\ profiles = <<>>
    /\ files = NoFiles

\* s_curve_data = get_s_curve_data(tasks), line 611
Analyse ==
    /\ pc = "stored"
    /\ s_curve_data' = get_s_curve_data(tasks, now)
    /\ pc' = "analysed"
    /\ UNCHANGED <<df, given, tasks, first, now, profiles, files>>

NextCurve == Analyse

SpecCurve == InitCurve /\ [][NextCurve]_vars

\* the leaves the curves are based on: no subtasks and weightage > 0
SelectedLeaves(ts) ==
    {t \in AllTasks(ts) : t.subtasks = <<>> /\ t.weightage > 0}

\* the weightage of the selected leaves whose end date is on or before day d
SelectedWeightBy(ts, field, d) ==
    LET W(t) == t.weightage
    IN  SumOver({t \in SelectedLeaves(ts) :
                    t[field].kind = "iso" /\ date(t[field].dt) <= d}, W)

SelectedWeight(ts) ==
    LET W(t) == t.weightage IN SumOver(SelectedLeaves(ts), W)

\* v hundredths of a percent is 100 * part / whole rounded to 2 decimals
IsPercentOf(v, part, whole) == 2 * Abs(10000 * part - v * whole) <= whole

Computed == pc = "analysed" /\ ~s_curve_data.empty

\* C8: for every day d of the sequence, planned_progress(d) is 100 * (the
\* weightage of the selected leaves with plannedEndDate <= d) / (the
\* weightage of all selected leaves) and actual_progress(d) the same with
\* actualEndDate, the selected leaves being the tasks without subtasks and
\* with weightage > 0; both rounded to 2 decimals and within [0, 100].
CurveValues ==
    Computed =>
        /\ Len(s_curve_data.planned_progress) = Len(s_curve_data.dates)
        /\ Len(s_curve_data.actual_progress) = Len(s_curve_data.dates)
        /\ \A i \in DOMAIN s_curve_data.dates :
               /\ IsPercentOf(s_curve_data.planned_progress[i],
                              SelectedWeightBy(tasks, "plannedEndDate",
                                               s_curve_data.dates[i]),
                              SelectedWeight(tasks))
               /\ IsPercentOf(s_curve_data.actual_progress[i],
                              SelectedWeightBy(tasks, "actualEndDate",
                                               s_curve_data.dates[i]),
                              SelectedWeight(tasks))
               /\ s_curve_data.planned_progress[i] \in 0..10000
               /\ s_curve_data.actual_progress[i] \in 0..10000

\* curves of several days with a value strictly between 0 and 100 that needs
\* rounding (a third), on a forest with weighted internal tasks and a
\* zero-weight leaf
CurveValuesWitness ==
    /\ Computed
    /\ Len(s_curve_data.dates) >= 2
    /\ \E i \in DOMAIN s_curve_data.dates :
           /\ s_curve_data.planned_progress[i] \in {3333, 6667}
           /\ s_curve_data.actual_progress[i] \in 1..9999
    /\ \E t \in AllTasks(tasks) : t.subtasks # <<>> /\ t.weightage > 0
    /\ \E t \in AllTasks(tasks) : t.subtasks = <<>> /\ t.weightage = 0

\* C9: planned_progress and actual_progress are non-decreasing along the
\* date sequence.
CurveMonotone ==
    Computed =>
        \A i \in DOMAIN s_curve_data.dates :
            i + 1 \in DOMAIN s_curve_data.dates =>
                /\ s_curve_data.planned_progress[i]
                   <= s_curve_data.planned_progress[i + 1]
                /\ s_curve_data.actual_progress[i]
                   <= s_curve_data.actual_progress[i + 1]

\* curves of three days or more on which both values rise and then stay
CurveMonotoneWitness ==
    /\ Computed
    /\ \E i \in DOMAIN s_curve_data.dates :
           /\ i + 2 \in DOMAIN s_curve_data.dates
           /\ s_curve_data.planned_progress[i] < s_curve_data.planned_progress[i + 1]
           /\ s_curve_data.planned_progress[i + 1]
              = s_curve_data.planned_progress[i + 2]
           /\ s_curve_data.actual_progress[i] < s_curve_data.actual_progress[i + 1]

\* the days of the dates the selected leaves carry
SelectedDays(ts) ==
    {date(f.dt) : f \in {g \in UNION {DateFields(t) : t \in SelectedLeaves(ts)} :
                            g.kind = "iso"}}

\* C10: the date sequence is exactly the consecutive days from the window
\* start (the earliest plannedStart / plannedEnd / actualEnd day of the
\* selected leaves) to min(window end, today) inclusive, one point per day.
CurveDatesExact ==
    Computed =>
        LET start == Min(SelectedDays(tasks))
            end == Min({Max(SelectedDays(tasks)), date(now)})
        IN  /\ Len(s_curve_data.dates) = IF end < start THEN 0 ELSE end - start + 1
            /\ \A i \in DOMAIN s_curve_data.dates :
                   s_curve_data.dates[i] = start + i - 1

\* C11: when some but not all selected leaves carry an unparsable date, the
\* curves are not empty and are those of the remaining leaves; the result
\* is empty only when there is no selected leaf or no parsable date on any
\* selected leaf.
CurvePartialDates ==
    pc = "analysed" =>
        (s_curve_data.empty <=>
            \/ SelectedLeaves(tasks) = {}
            \/ \A t \in SelectedLeaves(tasks) :
                   \A f \in DateFields(t) : f.kind # "iso")

(***************************************************************************)
(* Request handlers and the project files                                  *)
(*                                                                         *)
(* Each request is one step: the handler reads and writes its files        *)
(* without another request in between.                                     *)
(***************************************************************************)

\* c.isalnum() for the characters that occur in project names
isalnum(c) == c \in {"A", "B", "C", "1", "2"}

KeepChar(c) == isalnum(c) \/ c \in {" ", "_"}

\* str.rstrip()
RECURSIVE rstrip(_)
rstrip(name) ==
    IF name # <<>> /\ name[Len(name)] = " "
    THEN rstrip(SubSeq(name, 1, Len(name) - 1))
    ELSE name

\* get_project_data_file(project_name), lines 44-48
get_project_data_file(project_name) ==
    LET safe_project_name == rstrip(SelectSeq(project_name, KeepChar))
    IN  [i \in DOMAIN safe_project_name |->
            IF safe_project_name[i] = " " THEN "_" ELSE safe_project_name[i]]
        \o <<"_data.json">>

\* sanitize(obj), lines 16-29, on a date field and on a forest: NaN becomes
\* None
SanitizeDate(f) == IF f.kind = "nan" THEN NoDate ELSE f

RECURSIVE sanitize(_)
sanitize(ts) ==
    [i \in DOMAIN ts |->
        [ts[i] EXCEPT !.plannedStartDate = SanitizeDate(@),
                      !.plannedEndDate = SanitizeDate(@),
                      !.actualEndDate = SanitizeDate(@),
                      !.subtasks = sanitize(@)]]

\* json.dump(data, open(data_file, 'w'))
WriteFile(fs, data_file, data) ==
    [f \in DOMAIN fs \cup {data_file} |-> IF f = data_file THEN data ELSE fs[f]]

\* a plausible slip: the posted forest stored as it came
FinalDataAsPosted(new_tasks_data) == sanitize(new_tasks_data)

\* line 457: final_data of save_data
final_data(new_tasks_data) ==
    sanitize(recalculate_progress_recursively(new_tasks_data))

MaxUploadRows == 2

ProjectNames == {<<"A">>, <<"A", " ", "B">>, <<"A", "_", "B">>}

AccessCodes == {"c1", "c2"}

\* the DataFrames uploaded
UploadRowPool ==
    {Row(NaCell, NumWeight(1)),
     Row(StrCell(W1), NumWeight(MaxWeightage)),
     Row(StrCell(W11), NumWeight(1)),
     Row(StrCell(W12), TextWeight)}

UploadFrames == UNION {[1..n -> UploadRowPool] : n \in 0..MaxUploadRows}

\* the forests posted to /api/save: the empty forest, and task 1 with the
\* leaves 1.1 (weightage 3) and 1.2 (weightage 1 or -3), after a client edited the
\* leaves; task 1 carries the progress the client had loaded or computed
PostedForests ==
    {<<>>}
    \cup {<<Task(W1, 1, p1, NoDate, NoDate, NoDate,
                 <<Task(W11, 3, p11, NoDate, d, NoDate, <<>>),
                   Task(W12, w12, p12, NoDate, NoDate, NoDate, <<>>)>>)>> :
            p1 \in StaleProgress, p11 \in {0, 100}, p12 \in {0, 100},
            w12 \in {1, -3}, d \in {NoDate, NaNDate}}

Init ==
    /\ pc = "idle"
    /\ profiles = <<>>
    /\ files = NoFiles
    /\ df = <<>>
    /\ given = <<>>
    /\ tasks = <<>>
    /\ first = <<>>
    /\ now = 0
    /\ s_curve_data = EmptyCurve

\* POST /api/projects, lines 351-378
CreateProject(project_name, client_access_code) ==
    /\ \A i \in DOMAIN profiles : profiles[i].name # project_name
    /\ \A i \in DOMAIN profiles : profiles[i].client_access_code # client_access_code
    /\ profiles' = Append(profiles, [name |-> project_name,
                                     client_access_code |-> client_access_code])
    /\ files' = WriteFile(files, get_project_data_file(project_name), <<>>)
    /\ UNCHANGED <<pc, df, given, tasks, first, now, s_curve_data>>

\* POST /api/upload, lines 463-494
UploadCsv(project_name, rows) ==
    /\ files' = WriteFile(files, get_project_data_file(project_name),
                          sanitize(build_task_hierarchy(rows)))
    /\ UNCHANGED <<pc, df, given, tasks, first, now, s_curve_data, profiles>>

\* POST /api/save, lines 406-460
SaveData(project_name, new_tasks_data) ==
    /\ files' = WriteFile(files, get_project_data_file(project_name),
                          final_data(new_tasks_data))
    /\ UNCHANGED <<pc, df, given, tasks, first, now, s_curve_data, profiles>>

Next ==
    \/ \E n \in ProjectNames, c \in AccessCodes : CreateProject(n, c)
    \/ \E n \in ProjectNames, rows \in UploadFrames : UploadCsv(n, rows)
    \/ \E n \in ProjectNames, t \in PostedForests : SaveData(n, t)

Spec == Init /\ [][Next]_vars

\* C2: in every state reachable by project creation, CSV upload and save
\* requests, every stored forest is progress-consistent: each task with
\* subtasks carries the rounded weighted average of its subtasks' progress,
\* or 0 when their total weightage is 0.
StoredForestsConsistent == \A f \in DOMAIN files : Consistent(files[f])

\* a file holds a forest whose parent progress is a weighted average the
\* posted forest did not carry, next to a file written by an upload or a
\* project creation
StoredForestsConsistentWitness ==
    /\ \E f \in DOMAIN files :
           \E p \in AllTasks(files[f]) :
               Len(p.subtasks) > 0 /\ p.progress \notin StaleProgress
    /\ \E f \in DOMAIN files :
           \A p \in AllTasks(files[f]) : p.progress = 0
    /\ Len(profiles) > 0

\* the names of the registered projects
RegisteredNames == {profiles[i].name : i \in DOMAIN profiles}

\* the step is a request addressed to the project n: the creation of n, or a
\* save or an upload for the registered project n
AddressedTo(n) ==
    \/ \E c \in AccessCodes : CreateProject(n, c)
    \/ /\ n \in RegisteredNames
       /\ \/ \E t \in PostedForests : SaveData(n, t)
          \/ \E rows \in UploadFrames : UploadCsv(n, rows)

\* C14: creating a project whose name is not registered yet leaves the
\* stored forest of every registered project unchanged, and a save or an
\* upload addressed to a registered project leaves the stored forest of
\* every other registered project unchanged: distinct registered names
\* address distinct stored documents.
ProjectsIsolated ==
    [][\A n \in ProjectNames :
          \A p \in RegisteredNames \ {n} :
              AddressedTo(n) =>
                  files'[get_project_data_file(p)] = files[get_project_data_file(p)]
      ]_vars

(***************************************************************************)
(* Two clients, one project: load, edit, save                              *)
(*                                                                         *)
(* A read-modify-write cycle is two requests, GET /api/load and POST       *)
(* /api/save, with the client's edit in between.  Each request is one      *)
(* step; neither handler takes a lock or compares versions, so the         *)
(* requests of two clients interleave freely.  Here pc and tasks are       *)
(* functions of the client: its position and the forest it holds.          *)
(***************************************************************************)

Clients == {"client1", "client2"}

\* the project both clients work on
RmwProject == <<"A">>

\* the leaf each client edits
EditedLeaf(c) == IF c = "client1" THEN W11 ELSE W12

\* the progress values a client enters
EditValues == {50, 100}

\* the forest with the progress of the task wbs set to v
RECURSIVE SetProgress(_, _, _)
SetProgress(ts, wbs, v) ==
    [i \in DOMAIN ts |->
        [ts[i] EXCEPT !.progress = IF ts[i].wbs = wbs THEN v ELSE @,
                      !.subtasks = SetProgress(@, wbs, v)]]

\* the progress of the task wbs in a forest that holds it
ProgressOf(ts, wbs) ==
    (CHOOSE t \in AllTasks(ts) : t.wbs = wbs).progress

\* the forests stored for the project before the clients start: written by
\* an earlier save of task 1 with the leaves 1.1 and 1.2
RmwStored ==
    {final_data(<<Task(W1, 1, 0, NoDate, NoDate, NoDate,
                       <<Task(W11, MaxWeightage, p11, NoDate, NoDate, NoDate, <<>>),
                         Task(W12, w12, p12, NoDate, NoDate, NoDate, <<>>)>>)>>) :
        p11 \in {0, 2}, p12 \in {0, 2}, w12 \in {1, MaxWeightage}}

InitRmw ==
    /\ pc = [c \in Clients |-> "idle"]
    /\ tasks = [c \in Clients |-> <<>>]
    /\ given \in RmwStored
    /\ files = WriteFile(NoFiles, get_project_data_file(RmwProject), given)
    /\ profiles = <<[name |-> RmwProject, client_access_code |-> "c1"]>>
    /\ df = <<>>
    /\ first = <<>>
    /\ now = 0
    /\ s_curve_data = EmptyCurve

\* GET /api/load, lines 392-404: the response the client c receives
LoadData(c, project_name) ==
    LET data_file == get_project_data_file(project_name)
    IN  /\ pc[c] = "idle"
        /\ tasks' = [tasks EXCEPT ![c] = IF data_file \in DOMAIN files
                                         THEN sanitize(files[data_file])
                                         ELSE <<>>]
        /\ pc' = [pc EXCEPT ![c] = "loaded"]
        /\ UNCHANGED <<df, given, first, now, s_curve_data, profiles, files>>

\* the client c changes the progress of its leaf in the forest it loaded
EditLeaf(c, v) ==
    /\ pc[c] = "loaded"
    /\ v # ProgressOf(tasks[c], EditedLeaf(c))
    /\ tasks' = [tasks EXCEPT ![c] = SetProgress(@, EditedLeaf(c), v)]
    /\ pc' = [pc EXCEPT ![c] = "edited"]
    /\ UNCHANGED <<df, given, first, now, s_curve_data, profiles, files>>

\* POST /api/save, lines 406-460, with the whole forest the client c holds
SaveLoaded(c, project_name) ==
    /\ pc[c] = "edited"
    /\ files' = WriteFile(files, get_project_data_file(project_name),
                          final_data(tasks[c]))
    /\ pc' = [pc EXCEPT ![c] = "saved"]
    /\ UNCHANGED <<df, given, tasks, first, now, s_curve_data, profiles>>

NextRmw ==
    \/ \E c \in Clients : LoadData(c, RmwProject)
    \/ \E c \in Clients, v \in EditValues : EditLeaf(c, v)
    \/ \E c \in Clients : SaveLoaded(c, RmwProject)

SpecRmw == InitRmw /\ [][NextRmw]_vars

\* the forest stored for the project
RmwFile == files[get_project_data_file(RmwProject)]

\* C12: once both clients have loaded the project's forest, edited their
\* own leaf and saved the whole forest, the stored forest holds both edits,
\* whatever the order of the two loads and the two saves was.
NoLostUpdate ==
    (\A c \in Clients : pc[c] = "saved") =>
        \A c \in Clients :
            ProgressOf(RmwFile, EditedLeaf(c)) = ProgressOf(tasks[c], EditedLeaf(c))

====
